---------------------------- MODULE Spec2Model ----------------------------
(***************************************************************************)
(* Model of csrc/emulator.cc: the MagicTracker class and the cycle-stepped *)
(* simulation loop of main() with its memory-channel adapter, its host     *)
(* transport bridge, the trace dump and the exit-status computation.       *)
(*                                                                         *)
(* The DUT (Top_t), the memory backends (mm_t) and the transport           *)
(* (htif_emulator_t) are opaque collaborators: what they return is chosen  *)
(* nondeterministically at the call sites of emulator.cc.                  *)
(***************************************************************************)
EXTENDS Integers, Sequences, FiniteSets, TLC

(***************************************************************************)
(* Program constants (emulator.cc lines 38-48).                            *)
(***************************************************************************)
MAGIC_LEN == 4

MAGIC_START0 == 72680723    \* 0x04550513  addi a0, a0, 0x45 ; 'E'
MAGIC_START1 == 81069331    \* 0x04d50513  addi a0, a0, 0x4D ; 'M'
MAGIC_START2 == 69534995    \* 0x04250513  addi a0, a0, 0x42 ; 'B'
MAGIC_START3 == 72680723    \* 0x04550513  addi a0, a0, 0x45 ; 'E'

MAGIC_STOP0 == 70583571     \* 0x04350513  addi a0, a0, 0x43 ; 'C'
MAGIC_STOP1 == 83166483     \* 0x04f50513  addi a0, a0, 0x4F ; 'O'
MAGIC_STOP2 == 87360787     \* 0x05350513  addi a0, a0, 0x53 ; 'S'
MAGIC_STOP3 == 81069331     \* 0x04d50513  addi a0, a0, 0x4D ; 'M'

StartPattern == <<MAGIC_START0, MAGIC_START1, MAGIC_START2, MAGIC_START3>>
StopPattern == <<MAGIC_STOP0, MAGIC_STOP1, MAGIC_STOP2, MAGIC_STOP3>>

(***************************************************************************)
(* Bounds of the model.                                                    *)
(***************************************************************************)
MaxObs == 5        \* observations fed to a stand-alone MagicTracker
MaxBudget == 5     \* largest +max-cycles= value explored
MaxStart == 2      \* largest +start= value explored

(***************************************************************************)
(* Values dat_t<32> getInst() may return: the six distinct magic encodings *)
(* and one encoding that belongs to no pattern (addi x0, x0, 0).           *)
(***************************************************************************)
OTHER_INST == 19

StartInsts == {MAGIC_START0, MAGIC_START1, MAGIC_START2, OTHER_INST}
Inst == StartInsts \cup {MAGIC_STOP0, MAGIC_STOP1, MAGIC_STOP2}

VARIABLES
  pc,                      \* position of main(): "cond", "pre", ..., "done"
  env,                     \* what is fixed for one run: build, DUT class, budget
  vcd, start,              \* command-line flags -v and +start=
  max_cycles, trace_count, ret,
  insts, needs_reset, needs_emit_cycle_count,   \* MagicTracker's fields
  htif,                    \* the transport: what done() and exit_code() return
  htif_in_valid, htif_in_bits,   \* the bridge's static locals (lines 310-311)
  tile,                    \* the DUT's wires that main() reads and writes
  mm,                      \* per channel and request kind: the backend's *_ready()
  dut,                     \* the DUT's own state (opaque to main())
  g,                       \* observers (history of the run, no program state)
  gm,                      \* observers of the memory channels
  gh                       \* observers of the host transport

trackerVars == <<insts, needs_reset, needs_emit_cycle_count>>
loopVars == <<vcd, start, max_cycles, trace_count, ret>>
ioVars == <<htif_in_valid, htif_in_bits, tile, mm, dut, gm, gh>>
vars == <<pc, env, loopVars, trackerVars, htif, g, ioVars>>

(***************************************************************************)
(* Memory channels and host frames.                                        *)
(***************************************************************************)
N_MEM_CHANNELS == 2      \* channels explored (a macro of the generated header)
MEM_BASE == 16           \* stands for the generated header's MEM_BASE

\* The request kinds of one channel: read-address, write-address, write-data.
Kinds == {"ar", "aw", "w"}
Pairs == (0..(N_MEM_CHANNELS - 1)) \X Kinds

\* Payloads the DUT may put on a request channel (addresses at or above
\* MEM_BASE for ar and aw), and frames the transport and the DUT exchange.
MemBits == {MEM_BASE, MEM_BASE + 1}
Frames == {1, 2}
NoFrame == 0

\* lines 287 and 293: ar and aw addresses are passed minus MEM_BASE (uint64
\* arithmetic; the model's addresses never wrap); w payloads as they are.
TickPayload(p, bits) == IF p[2] \in {"ar", "aw"} THEN bits - MEM_BASE ELSE bits

\* A ready wire that is never refreshed from the backend.
ReadyWire_Stale(old, ready) == old

\* lines 260-262: the value written to a DUT ready wire; old is the wire's
\* value before, ready what the backend's *_ready() returns.
ReadyWire(old, ready) == ready

\* A bridge that fetches on every gated cycle.
RecvGuard_Always(in_ready, pending) == TRUE

\* A bridge that runs on every cycle.
BridgeGate_Open(edge) == TRUE

\* line 308: whether the bridge runs in this iteration.
BridgeGate(edge) == edge

\* line 312: whether the bridge calls recv_nonblocking.
RecvGuard(in_ready, pending) == in_ready \/ ~pending

IdleReq == [valid |-> FALSE, bits |-> MEM_BASE]
ReqChoices == {IdleReq} \cup [valid : {TRUE}, bits : MemBits]
IdleOut == [valid |-> FALSE, bits |-> NoFrame]
OutChoices == {IdleOut} \cup [valid : {TRUE}, bits : Frames]

\* The state of the wires, the backends, the DUT and the bridge when the
\* loop is entered: after init and the reset loop of lines 215-221.
TileInit ==
  [host_clk_edge |-> FALSE, host_in_ready |-> FALSE,
   host_in_valid |-> FALSE, host_in_bits |-> NoFrame,       \* line 215
   host_out_valid |-> FALSE, host_out_bits |-> NoFrame,
   host_out_ready |-> FALSE,                                \* line 216
   mem_ready |-> [p \in Pairs |-> FALSE],
   mem_valid |-> [p \in Pairs |-> FALSE],
   mem_bits |-> [p \in Pairs |-> MEM_BASE]]

DutInit ==
  [req |-> [p \in Pairs |-> IdleReq],
   fire |-> [p \in Pairs |-> FALSE],
   out |-> IdleOut,
   in_take |-> [take |-> FALSE, bits |-> NoFrame],
   out_done |-> FALSE]

NoTick == [valid |-> FALSE, bits |-> 0, ready |-> FALSE]

GmInit ==
  [acc |-> [p \in Pairs |-> <<>>],      \* payloads ticked with valid and ready
   fired |-> [p \in Pairs |-> <<>>],    \* payloads the DUT saw accepted
   ticks |-> [p \in Pairs |-> 0],       \* tick calls in this iteration
   prev |-> [p \in Pairs |-> NoTick],   \* the request of the tick before
   cur |-> [p \in Pairs |-> NoTick]]    \* the request of the latest tick

GhInit ==
  [recvd |-> <<>>,        \* frames recv_nonblocking returned
   taken |-> <<>>,        \* frames the DUT accepted
   sent |-> <<>>,         \* frames passed to send
   handed |-> <<>>,       \* frames the DUT saw handed off
   recvNow |-> FALSE,     \* recv_nonblocking was called in this iteration
   sendNow |-> FALSE,     \* send was called in this iteration
   wasPending |-> FALSE,  \* htif_in_valid before this iteration's bridge
   wasBits |-> NoFrame]   \* htif_in_bits before this iteration's bridge

IoInit ==
  /\ htif_in_valid = FALSE /\ htif_in_bits = NoFrame        \* line 310
  /\ tile = TileInit
  /\ mm \in [Pairs -> BOOLEAN]
  /\ \A p \in Pairs : p \notin env.memActive => mm[p]
  /\ dut = DutInit
  /\ gm = GmInit /\ gh = GhInit

\* The runs explored: the build, the DUT's instruction set, the budget, the
\* request channels the DUT uses, whether it uses the host link, whether
\* +verbose or +cycle-count was given.
Envs(builds, doms, budgets, mems, hostIns, hostOuts, verboses) ==
  [cb_debug : builds, instDom : doms, budget : budgets,
   memActive : mems, hostIn : hostIns, hostOut : hostOuts,
   verbose : verboses]

(***************************************************************************)
(* MagicTracker (emulator.cc lines 55-118).                                *)
(*                                                                         *)
(* insts is the content of the boost::circular_buffer, oldest first.       *)
(***************************************************************************)

\* Mutant: nextInst pushes on every call.
ShouldPush_Always(w, inst) == TRUE

\* line 70: the condition under which nextInst pushes.
ShouldPush(w, inst) == w = <<>> \/ inst # w[Len(w)]

\* line 71: circular_buffer::push_back with capacity MAGIC_LEN: a full buffer
\* drops its oldest element.
PushBack(w, inst) ==
  IF Len(w) < MAGIC_LEN THEN Append(w, inst) ELSE Append(Tail(w), inst)

\* insts[n] of lines 80-83 and 88-91 (n counted from 1 here).  With n beyond
\* size() the precondition of circular_buffer::operator[] is broken; the
\* read yields whatever the allocated, never-written slot holds (garbage[n]).
ElemAt(w, garbage, n) == IF n <= Len(w) THEN w[n] ELSE garbage[n]

\* The && chains of lines 80-83 and 88-91 evaluate left to right and stop at
\* the first mismatch: a slot beyond size() is read exactly when every
\* element in range matched and the buffer is not full.
ReadsPastEnd(w, pat) ==
  /\ Len(w) < MAGIC_LEN
  /\ \A n \in 1..Len(w) : w[n] = pat[n]

PatternMatches(w, garbage, pat) ==
  \A n \in 1..MAGIC_LEN : ElemAt(w, garbage, n) = pat[n]

\* The contents a never-written slot may hold.
GarbageFor(w) == [(Len(w) + 1)..MAGIC_LEN -> Inst]

\* One call of nextInst on tracker state t.  debug is whether the build keeps
\* BOOST_CB_ASSERT: then a read past size() aborts the process; otherwise it
\* reads garbage.  The result is the set of possible outcomes.
NextInstOutcomes(t, inst, debug) ==
  IF ~ShouldPush(t.insts, inst)
  THEN {[insts |-> t.insts, needs_reset |-> t.needs_reset,
         needs_emit_cycle_count |-> t.needs_emit_cycle_count,
         aborted |-> FALSE]}
  ELSE LET w == PushBack(t.insts, inst)
       IN  IF debug /\ (ReadsPastEnd(w, StartPattern) \/ ReadsPastEnd(w, StopPattern))
           THEN {[insts |-> w, needs_reset |-> t.needs_reset,
                  needs_emit_cycle_count |-> t.needs_emit_cycle_count,
                  aborted |-> TRUE]}
           ELSE {[insts |-> w,
                  needs_reset |->
                    t.needs_reset \/ PatternMatches(w, garbage, StartPattern),
                  needs_emit_cycle_count |->
                    t.needs_emit_cycle_count \/ PatternMatches(w, garbage, StopPattern),
                  aborted |-> FALSE] : garbage \in GarbageFor(w)}

\* lines 100-107 and 109-116: the value returned; the flag is cleared.
HitStartReturns(t) == t.needs_reset

\* Mutant: hitStart and hitStop leave their flag as it is.
FlagAfterHit_Keep(flag) == flag

\* lines 101-102 and 110-111: the flag after hitStart or hitStop returned.
FlagAfterHit(flag) == IF flag THEN FALSE ELSE flag

\* Mutant: hitStop reports an event on every call.
HitStopReturns_Always(t) == TRUE

HitStopReturns(t) == t.needs_emit_cycle_count

Tracker == [insts |-> insts, needs_reset |-> needs_reset,
            needs_emit_cycle_count |-> needs_emit_cycle_count]

(***************************************************************************)
(* SpecTracker: a MagicTracker on its own, driven through its three public *)
(* methods in any order.  g.seen is every instruction handed to nextInst.  *)
(***************************************************************************)
GhostInit ==
  [seen |-> <<>>,          \* SpecTracker: the instructions handed to nextInst
   first |-> FALSE,        \* the iteration in progress is the first one
   failed |-> FALSE,       \* clock_lo has thrown
   failedAt |-> -1,        \* trace_count when it threw
   pushed |-> FALSE,       \* nextInst pushed in this iteration
   resetNow |-> FALSE,     \* hitStart returned true in this iteration
   stopNow |-> FALSE,      \* hitStop returned true in this iteration
   reported |-> -1,        \* the count printed in this iteration
   dumped |-> FALSE,       \* tile.dump was called in this iteration
   dumpedAt |-> -1,        \* with this cycle number
   elapsed |-> 0,          \* iterations completed since the last reset
   everReset |-> FALSE,    \* some start event was consumed
   startProg |-> 0,        \* progress of the observed start sequence
   startHits |-> 0,        \* start events since that sequence began
   pastEnd |-> FALSE,      \* nextInst has read insts[n] with n >= size()
   log |-> <<>>,           \* what the iteration in progress has done, in order
   line |-> "unset"]       \* the line written to stderr after the loop

InitTracker ==
  /\ pc = "unit"
  /\ env \in Envs(BOOLEAN, {Inst}, {0}, {{}}, {FALSE}, {FALSE}, {FALSE})
  /\ vcd = FALSE /\ start = 0
  /\ max_cycles = 0 /\ trace_count = 0 /\ ret = 0
  /\ insts = <<>> /\ needs_reset = FALSE /\ needs_emit_cycle_count = FALSE
  /\ htif = [done |-> FALSE, exit_code |-> 0]
  /\ g = GhostInit
  /\ IoInit

CallNextInst ==
  /\ pc = "unit"
  /\ Len(g.seen) < MaxObs
  /\ \E inst \in env.instDom :
       \E r \in NextInstOutcomes(Tracker, inst, env.cb_debug) :
         /\ insts' = r.insts
         /\ needs_reset' = r.needs_reset
         /\ needs_emit_cycle_count' = r.needs_emit_cycle_count
         /\ pc' = IF r.aborted THEN "aborted" ELSE pc
         /\ g' = [g EXCEPT !.seen = Append(@, inst),
                           !.pastEnd = @ \/ (ShouldPush(insts, inst) /\
                                (ReadsPastEnd(r.insts, StartPattern) \/
                                 ReadsPastEnd(r.insts, StopPattern)))]
  /\ UNCHANGED <<env, loopVars, htif, ioVars>>

CallHitStart ==
  /\ pc = "unit"
  /\ needs_reset
  /\ needs_reset' = FlagAfterHit(needs_reset)
  /\ UNCHANGED <<pc, env, loopVars, htif, insts, needs_emit_cycle_count, g, ioVars>>

CallHitStop ==
  /\ pc = "unit"
  /\ needs_emit_cycle_count
  /\ needs_emit_cycle_count' = FlagAfterHit(needs_emit_cycle_count)
  /\ UNCHANGED <<pc, env, loopVars, htif, insts, needs_reset, g, ioVars>>

NextTracker == CallNextInst \/ CallHitStart \/ CallHitStop

SpecTracker == InitTracker /\ [][NextTracker]_vars

(***************************************************************************)
(* C1                                                                      *)
(***************************************************************************)
RECURSIVE Collapse(_)
Collapse(s) ==
  IF Len(s) <= 1 THEN s
  ELSE LET rest == Collapse(SubSeq(s, 1, Len(s) - 1))
       IN  IF s[Len(s)] = s[Len(s) - 1] THEN rest ELSE Append(rest, s[Len(s)])

LastUpTo(s, k) == IF Len(s) <= k THEN s ELSE SubSeq(s, Len(s) - k + 1, Len(s))

\* C1: the window holds the last (at most MAGIC_LEN) elements of the sequence
\* of observations with every run of consecutive identical instructions
\* collapsed into one entry, so an instruction reported on N consecutive
\* cycles is pushed once.
C1_WindowIsCollapsedTail ==
  pc \in {"unit", "aborted"} => insts = LastUpTo(Collapse(g.seen), MAGIC_LEN)

\* A repeated instruction was observed and more than MAGIC_LEN distinct
\* entries were pushed, so the oldest was evicted.
C1_Witness ==
  /\ pc = "unit"
  /\ Len(g.seen) = MaxObs
  /\ Len(Collapse(g.seen)) < Len(g.seen)
  /\ Len(insts) >= 2
  /\ g.seen[Len(g.seen)] = g.seen[Len(g.seen) - 1]

(***************************************************************************)
(* main(): the simulation loop (emulator.cc lines 257-345) and the exit    *)
(* status (lines 350-367).  One action per phase of an iteration, in the   *)
(* order of the source.                                                    *)
(***************************************************************************)

\* Mutant: the budget test lets one more iteration through.
LoopCond_OneMore(done, tc, mc, r) == ~done /\ tc <= mc /\ r = 0

\* line 257
LoopCond(done, tc, mc, r) == ~done /\ tc < mc /\ r = 0

\* Mutant: the start event leaves the counter alone.
CountAfterStart_Keep(hit, tc) == tc

\* lines 328-331: trace_count after hitStart returned hit.
CountAfterStart(hit, tc) == IF hit THEN 0 ELSE tc

\* line 344: trace_count++.
NextCount(tc) == tc + 1

\* line 340
ShouldDump(v, tc, st) == v /\ (tc = 0 \/ tc >= st)

\* line 334: printf("%d") of the uint64_t trace_count prints its low 32 bits
\* as a signed int; the two agree up to INT_MAX.
PrintedCount(tc) ==
  IF tc <= 2147483647 THEN tc ELSE tc - 2147483647 - 2147483647 - 2

\* Mutant: the budget test comes before the transport's status.
ExitStatus_TimeoutFirst(r, code, tc, mc) ==
  IF tc = mc THEN 2
  ELSE IF code # 0 THEN code
  ELSE r

\* lines 350-367: the value main returns.
ExitStatus(r, code, tc, mc) ==
  IF code # 0 THEN code
  ELSE IF tc = mc THEN 2
  ELSE r

\* lines 350-363: the line written to stderr after the loop.  The two
\* FAILED lines carry the cause, the seed and trace_count; the third line
\* carries trace_count; verbose stands for log || print_cycles.
ExitLine(code, tc, mc, verbose) ==
  IF code # 0 THEN "failed_code"
  ELSE IF tc = mc THEN "failed_timeout"
  ELSE IF verbose THEN "completed"
  ELSE "none"

\* Exit statuses the transport may report (0, or a benchmark's own status).
HtifCodes == {0, 3}

\* The sequence E+ M+ B+ E+ of the start pattern, observed from a tracker
\* whose most recent entries are no prefix of the pattern: startProg is the
\* number of encodings of the sequence seen so far, 0 when none is under way.
NoStartPrefixAtEnd(w) ==
  \A k \in 1..(MAGIC_LEN - 1) :
    k <= Len(w) => SubSeq(w, Len(w) - k + 1, Len(w)) # SubSeq(StartPattern, 1, k)

StartProgress(prog, w, inst) ==
  IF prog \in 1..MAGIC_LEN /\ inst = StartPattern[prog] THEN prog
  ELSE IF prog \in 1..(MAGIC_LEN - 1) /\ inst = StartPattern[prog + 1] THEN prog + 1
  ELSE IF inst = MAGIC_START0 /\ NoStartPrefixAtEnd(w) THEN 1
  ELSE 0

\* Mutant: the backends are ticked before the DUT is evaluated.
NextPhase_TickBeforeLo(ph) ==
  CASE ph = "pre" -> "tick"
    [] ph = "tick" -> "lo"
    [] ph = "lo" -> "htif"
    [] ph = "htif" -> "magic"
    [] ph = "magic" -> "dump"
    [] ph = "dump" -> "hi"
    [] ph = "hi" -> "cond"

\* Mutant: the bridge runs before the DUT is evaluated.
NextPhase_BridgeBeforeLo(ph) ==
  CASE ph = "pre" -> "htif"
    [] ph = "htif" -> "lo"
    [] ph = "lo" -> "tick"
    [] ph = "tick" -> "magic"
    [] ph = "magic" -> "dump"
    [] ph = "dump" -> "hi"
    [] ph = "hi" -> "cond"

\* lines 258-345: the statements of the loop body in the order of the
\* source; after the last one control returns to the loop condition.
NextPhase(ph) ==
  CASE ph = "pre" -> "lo"        \* 259-274, then clock_lo (276-282)
    [] ph = "lo" -> "tick"       \* then mm[i]->tick (284-306)
    [] ph = "tick" -> "htif"     \* then the bridge (308-320)
    [] ph = "htif" -> "magic"    \* then the tracker (327-335)
    [] ph = "magic" -> "dump"    \* then the trace record (339-341)
    [] ph = "dump" -> "hi"       \* then clock_hi and trace_count++ (343-344)
    [] ph = "hi" -> "cond"

InitLoop(envs, vcds, starts) ==
  /\ pc = "cond"
  /\ env \in envs
  /\ vcd \in vcds /\ start \in starts
  /\ max_cycles = env.budget /\ trace_count = 0 /\ ret = 0
  /\ insts = <<>> /\ needs_reset = FALSE /\ needs_emit_cycle_count = FALSE
  /\ htif = [done |-> FALSE, exit_code |-> 0]
  /\ g = GhostInit
  /\ IoInit

\* line 257: the loop condition; a new iteration begins or the loop is left.
Cond ==
  /\ pc = "cond"
  /\ IF LoopCond(htif.done, trace_count, max_cycles, ret)
     THEN /\ pc' = "pre"
          /\ g' = [g EXCEPT !.first = (g.elapsed = 0 /\ ~g.everReset),
                            !.pushed = FALSE, !.resetNow = FALSE,
                            !.stopNow = FALSE, !.reported = -1,
                            !.dumped = FALSE, !.dumpedAt = -1,
                            !.log = <<>>]
          /\ gm' = [gm EXCEPT !.ticks = [p \in Pairs |-> 0]]
          /\ gh' = [gh EXCEPT !.recvNow = FALSE, !.sendNow = FALSE,
                              !.wasPending = FALSE, !.wasBits = NoFrame]
     ELSE /\ pc' = "exit"
          /\ UNCHANGED <<g, gm, gh>>
  /\ UNCHANGED <<env, loopVars, trackerVars, htif>>
  /\ UNCHANGED <<htif_in_valid, htif_in_bits, tile, mm, dut>>

\* lines 259-274: backend state onto the DUT's input wires.
Pre ==
  /\ pc = "pre"
  /\ pc' = NextPhase("pre")
  /\ tile' = [tile EXCEPT
       !.mem_ready = [p \in Pairs |-> ReadyWire(tile.mem_ready[p], mm[p])]]
  /\ g' = [g EXCEPT !.log = Append(@, "copy")]
  /\ UNCHANGED <<env, loopVars, trackerVars, htif>>
  /\ UNCHANGED <<htif_in_valid, htif_in_bits, mm, dut, gm, gh>>

\* lines 276-282: clock_lo, which may throw std::runtime_error.  The DUT
\* drives its output wires from its state and the input wires it sees, and
\* settles what the sequential commit will do: a memory request is retired
\* when it is valid and its ready wire is high; on a cycle with host_clk_edge
\* an inbound frame is taken when host_in_valid and host_in_ready, and the
\* outbound frame is handed off when host_out_valid and host_out_ready.
ClockLo ==
  /\ pc = "lo"
  /\ pc' = NextPhase("lo")
  /\ \E edge \in (IF env.hostIn \/ env.hostOut THEN BOOLEAN ELSE {FALSE}),
        rdy \in (IF env.hostIn THEN BOOLEAN ELSE {FALSE}) :
       /\ tile' = [tile EXCEPT
            !.host_clk_edge = edge,
            !.host_in_ready = rdy,
            !.host_out_valid = dut.out.valid,
            !.host_out_bits = dut.out.bits,
            !.mem_valid = [p \in Pairs |-> dut.req[p].valid],
            !.mem_bits = [p \in Pairs |-> dut.req[p].bits]]
       /\ dut' = [dut EXCEPT
            !.fire = [p \in Pairs |-> dut.req[p].valid /\ tile.mem_ready[p]],
            !.in_take =
              IF edge /\ tile.host_in_valid /\ rdy
              THEN [take |-> TRUE, bits |-> tile.host_in_bits]
              ELSE [take |-> FALSE, bits |-> NoFrame],
            !.out_done = edge /\ dut.out.valid /\ tile.host_out_ready]
  /\ \/ /\ UNCHANGED <<max_cycles, ret>>
        /\ g' = [g EXCEPT !.log = Append(@, "clock_lo")]
     \/ /\ max_cycles' = trace_count
        /\ ret' = 1
        /\ g' = [g EXCEPT !.failed = TRUE, !.failedAt = trace_count,
                          !.log = Append(@, "clock_lo")]
  /\ UNCHANGED <<env, vcd, start, trace_count, trackerVars, htif>>
  /\ UNCHANGED <<htif_in_valid, htif_in_bits, mm, gm, gh>>

\* lines 284-306: mm[i]->tick for every channel.
\* A backend takes a request when it is ticked with valid while its
\* *_ready() holds; what *_ready() returns afterwards is the backend's choice.
Tick ==
  /\ pc = "tick"
  /\ pc' = NextPhase("tick")
  /\ LET req == [p \in Pairs |->
                  [valid |-> tile.mem_valid[p],
                   bits |-> TickPayload(p, tile.mem_bits[p]),
                   ready |-> mm[p]]]
     IN  gm' = [gm EXCEPT
           !.prev = gm.cur,
           !.cur = req,
           !.ticks = [p \in Pairs |-> @[p] + 1],
           !.acc = [p \in Pairs |->
                      IF req[p].valid /\ req[p].ready
                      THEN Append(@[p], req[p].bits) ELSE @[p]]]
  /\ \E r \in BOOLEAN :
       mm' = [p \in Pairs |-> IF p \in env.memActive THEN r ELSE mm[p]]
  /\ g' = [g EXCEPT !.log = Append(@, "tick")]
  /\ UNCHANGED <<env, loopVars, trackerVars, htif>>
  /\ UNCHANGED <<htif_in_valid, htif_in_bits, tile, dut, gh>>

\* lines 308-320: the host transport bridge.  The transport may come to
\* report completion (the target exits, or SIGTERM calls htif->stop()).
Bridge ==
  /\ pc = "htif"
  /\ pc' = NextPhase("htif")
  /\ \/ htif' = htif
     \/ \E c \in HtifCodes : htif' = [done |-> TRUE, exit_code |-> c]
  /\ IF BridgeGate(tile.host_clk_edge)
     THEN \E got \in {NoFrame} \cup Frames :
            LET recv == RecvGuard(tile.host_in_ready, htif_in_valid)
                valid == IF recv THEN got # NoFrame ELSE htif_in_valid
                bits == IF recv /\ got # NoFrame THEN got ELSE htif_in_bits
                send == tile.host_out_valid
            IN  /\ recv \/ got = NoFrame
                /\ htif_in_valid' = valid
                /\ htif_in_bits' = bits
                /\ tile' = [tile EXCEPT !.host_in_valid = valid,
                                        !.host_in_bits = bits,
                                        !.host_out_ready = TRUE]
                /\ gh' = [gh EXCEPT
                     !.recvNow = recv,
                     !.sendNow = send,
                     !.wasPending = htif_in_valid,
                     !.wasBits = htif_in_bits,
                     !.recvd = IF recv /\ got # NoFrame THEN Append(@, got) ELSE @,
                     !.sent = IF send THEN Append(@, tile.host_out_bits) ELSE @]
                /\ g' = [g EXCEPT !.log =
                     @ \o (IF recv THEN <<"recv">> ELSE <<>>) \o <<"drive">>
                       \o (IF send THEN <<"send">> ELSE <<>>)]
     ELSE UNCHANGED <<htif_in_valid, htif_in_bits, tile, gh, g>>
  /\ UNCHANGED <<env, loopVars, trackerVars, mm, dut, gm>>

\* lines 327-335: nextInst, hitStart, hitStop.
Magic ==
  /\ pc = "magic"
  /\ \E inst \in env.instDom :
       \E r \in NextInstOutcomes(Tracker, inst, env.cb_debug) :
         IF r.aborted
         THEN /\ pc' = "aborted"
              /\ insts' = r.insts
              /\ g' = [g EXCEPT !.pastEnd = TRUE]
              /\ UNCHANGED <<needs_reset, needs_emit_cycle_count, trace_count>>
         ELSE LET hitStart == HitStartReturns(r)
                  hitStop == HitStopReturns(r)
                  tc == CountAfterStart(hitStart, trace_count)
                  prog == StartProgress(g.startProg, insts, inst)
                  hits0 == IF prog = 1 /\ g.startProg # 1 THEN 0 ELSE g.startHits
              IN  /\ pc' = NextPhase("magic")
                  /\ insts' = r.insts
                  /\ needs_reset' = FlagAfterHit(r.needs_reset)
                  /\ needs_emit_cycle_count' = FlagAfterHit(r.needs_emit_cycle_count)
                  /\ trace_count' = tc
                  /\ g' = [g EXCEPT
                            !.pushed = ShouldPush(insts, inst),
                            !.resetNow = hitStart,
                            !.stopNow = hitStop,
                            !.reported = IF hitStop THEN PrintedCount(tc) ELSE -1,
                            !.elapsed = IF hitStart THEN 0 ELSE @,
                            !.everReset = @ \/ hitStart,
                            !.startProg = prog,
                            !.pastEnd = @ \/ (ShouldPush(insts, inst) /\
                                 (ReadsPastEnd(r.insts, StartPattern) \/
                                  ReadsPastEnd(r.insts, StopPattern))),
                            !.startHits =
                              IF hitStart /\ prog # 0 /\ hits0 < 2
                              THEN hits0 + 1 ELSE hits0]
  /\ UNCHANGED <<env, vcd, start, max_cycles, ret, htif, ioVars>>

\* lines 339-341: the trace record.
Dump ==
  /\ pc = "dump"
  /\ pc' = NextPhase("dump")
  /\ g' = [g EXCEPT !.dumped = ShouldDump(vcd, trace_count, start),
                    !.dumpedAt = IF ShouldDump(vcd, trace_count, start)
                                 THEN trace_count ELSE -1]
  /\ UNCHANGED <<env, loopVars, trackerVars, htif, ioVars>>

\* lines 343-344: clock_hi and trace_count++.
ClockHi ==
  /\ pc = "hi"
  /\ pc' = NextPhase("hi")
  /\ trace_count' = NextCount(trace_count)
  /\ g' = [g EXCEPT !.elapsed = @ + 1,
                    !.log = @ \o <<"clock_hi", "inc">>]
  /\ \E nreq \in ReqChoices, nout \in OutChoices :
       /\ nout.valid => env.hostOut
       /\ nreq.valid => env.memActive # {}
       /\ dut' = [dut EXCEPT
            !.req = [p \in Pairs |->
                       IF p \in env.memActive /\ (dut.fire[p] \/ ~dut.req[p].valid)
                       THEN nreq ELSE dut.req[p]],
            !.fire = [p \in Pairs |-> FALSE],
            !.out = IF dut.out_done \/ ~dut.out.valid THEN nout ELSE dut.out,
            !.in_take = [take |-> FALSE, bits |-> NoFrame],
            !.out_done = FALSE]
  /\ gm' = [gm EXCEPT
       !.fired = [p \in Pairs |->
                    IF dut.fire[p] THEN Append(@[p], dut.req[p].bits) ELSE @[p]]]
  /\ gh' = [gh EXCEPT
       !.taken = IF dut.in_take.take THEN Append(@, dut.in_take.bits) ELSE @,
       !.handed = IF dut.out_done THEN Append(@, dut.out.bits) ELSE @]
  /\ UNCHANGED <<env, vcd, start, max_cycles, ret, trackerVars, htif>>
  /\ UNCHANGED <<htif_in_valid, htif_in_bits, tile, mm>>

\* lines 347-367: after the loop.
Exit ==
  /\ pc = "exit"
  /\ pc' = "done"
  /\ ret' = ExitStatus(ret, htif.exit_code, trace_count, max_cycles)
  /\ g' = [g EXCEPT !.line =
            ExitLine(htif.exit_code, trace_count, max_cycles, env.verbose)]
  /\ UNCHANGED <<env, vcd, start, max_cycles, trace_count, trackerVars, htif, ioVars>>

Next ==
  \/ Cond \/ Pre \/ ClockLo \/ Tick \/ Bridge \/ Magic \/ Dump \/ ClockHi \/ Exit

\* Spec: a DUT whose instruction stream is drawn from the start pattern's
\* encodings and one other instruction; tracing off.
Init ==
  InitLoop(Envs(BOOLEAN, {StartInsts}, 0..MaxBudget, {{}}, {FALSE}, {FALSE}, {FALSE}),
           {FALSE}, {0})

Spec == Init /\ [][Next]_vars

\* SpecLive: a build that keeps BOOST_CB_ASSERT; main() is one thread that
\* always takes its next step.
InitLive ==
  InitLoop(Envs({TRUE}, {StartInsts}, 0..MaxBudget, {{}}, {FALSE}, {FALSE}, {FALSE}),
           {FALSE}, {0})

SpecLive == InitLive /\ [][Next]_vars /\ WF_vars(Next)

\* SpecTrace: a build that keeps BOOST_CB_ASSERT (a read past the end of
\* insts aborts), the largest budget, tracing on or off, any +start=.
InitTrace ==
  InitLoop(Envs({TRUE}, {StartInsts}, {MaxBudget}, {{}}, {FALSE}, {FALSE}, {FALSE}),
           BOOLEAN, 0..MaxStart)

SpecTrace == InitTrace /\ [][Next]_vars

\* SpecMem: a DUT that issues requests on one request channel of one memory
\* channel, holding valid and payload until it sees ready; a backend whose
\* readiness comes and goes.
InitMem ==
  InitLoop(Envs({FALSE}, {{OTHER_INST}}, {MaxBudget}, {{p} : p \in Pairs},
                {FALSE}, {FALSE}, {FALSE}),
           {FALSE}, {0})

SpecMem == InitMem /\ [][Next]_vars

\* SpecHost: a DUT that uses the inbound side of the host link.
InitHost ==
  InitLoop(Envs({FALSE}, {{OTHER_INST}}, {MaxBudget}, {{}}, {TRUE}, {FALSE}, {FALSE}),
           {FALSE}, {0})

SpecHost == InitHost /\ [][Next]_vars

\* SpecOut: a DUT that uses the outbound side of the host link.
InitOut ==
  InitLoop(Envs({FALSE}, {{OTHER_INST}}, {MaxBudget}, {{}}, {FALSE}, {TRUE}, {FALSE}),
           {FALSE}, {0})

SpecOut == InitOut /\ [][Next]_vars

\* SpecDiag: a build that keeps BOOST_CB_ASSERT, with or without +verbose
\* or +cycle-count.
InitDiag ==
  InitLoop(Envs({TRUE}, {StartInsts}, 0..MaxBudget, {{}}, {FALSE}, {FALSE},
                BOOLEAN),
           {FALSE}, {0})

SpecDiag == InitDiag /\ [][Next]_vars

\* SpecStop: the instruction stream is drawn from every encoding of both
\* patterns; either build, the largest budget.
InitStop ==
  InitLoop(Envs(BOOLEAN, {Inst}, {MaxBudget}, {{}}, {FALSE}, {FALSE}, {FALSE}),
           {FALSE}, {0})

SpecStop == InitStop /\ [][Next]_vars

(***************************************************************************)
(* C2                                                                      *)
(***************************************************************************)
\* C2: while MAGIC_START0..MAGIC_START3 are observed in order, each held for
\* one or more cycles, from the initial tracker (or one whose latest entries
\* are no prefix of the pattern), hitStart returns true in no iteration
\* before the fourth encoding is observed, and in exactly one iteration from
\* then on: the one in which the fourth encoding is first observed.
C2_OneStartEvent ==
  /\ g.startProg \in 1..(MAGIC_LEN - 1) => g.startHits = 0
  /\ g.startProg = MAGIC_LEN => g.startHits = 1

\* The same, for runs in which nextInst never read past the end of insts.
C2_OneStartEventInRange ==
  ~g.pastEnd => C2_OneStartEvent

C2_SequenceCompleted ==
  g.startProg = MAGIC_LEN /\ ~g.pastEnd /\ ~g.pushed /\ pc = "hi"

(***************************************************************************)
(* C3                                                                      *)
(***************************************************************************)
\* C3 as claimed: after an iteration that consumed a start event,
\* trace_count is 0 where the loop condition is next evaluated.
C3_ZeroAtNextBoundary ==
  (pc = "cond" /\ g.resetNow) => trace_count = 0

\* C3 as amended: in an iteration that consumed a start event trace_count is
\* 0 from the reset to the end of the body (a record dumped in it carries
\* cycle 0), and it is 1 where the loop condition is next evaluated.
C3_ZeroInIterationOneAtBoundary ==
  g.resetNow =>
    /\ pc \in {"dump", "hi"} => trace_count = 0
    /\ g.dumped => g.dumpedAt = 0
    /\ pc = "cond" => trace_count = 1

C3_Witness ==
  pc = "cond" /\ g.resetNow /\ ~g.pastEnd /\ g.dumped /\ insts = StartPattern

(***************************************************************************)
(* C5                                                                      *)
(***************************************************************************)
\* C5: with tracing enabled, a record is written in an iteration if and only
\* if it is the first iteration of the loop or trace_count is at or past
\* +start=.
C5_DumpOnlyFirstOrPastStart ==
  (pc = "hi" /\ vcd) => (g.dumped <=> (g.first \/ trace_count >= start))

(***************************************************************************)
(* C8                                                                      *)
(***************************************************************************)
\* C8: when the loop has ended, the transport has not reported completion
\* and has exit status 0, and clock_lo never threw, trace_count equals the
\* configured budget and main returns 2.
C8_TimeoutOutcome ==
  (pc = "done" /\ ~htif.done /\ htif.exit_code = 0 /\ ~g.failed)
    => (trace_count = env.budget /\ ret = 2)

\* A timeout after a start event had reset the counter.
C8_Witness ==
  /\ pc = "done" /\ ~htif.done /\ ~g.failed
  /\ env.budget = MaxBudget /\ g.everReset /\ ret = 2

(***************************************************************************)
(* C9                                                                      *)
(***************************************************************************)
\* C9: with a finite budget, unless the transport reports completion the
\* loop is eventually left (the process ends).
C9_LoopTerminates ==
  <>(htif.done \/ pc \in {"exit", "done", "aborted"})

(***************************************************************************)
(* C10                                                                     *)
(***************************************************************************)
\* C10: if clock_lo threw in some iteration and the transport's exit status
\* is 0, main returns 1.
C10_FailureExitsOne ==
  (pc = "done" /\ g.failed /\ htif.exit_code = 0) => ret = 1

\* The same, for runs in which nextInst never read past the end of insts.
C10_FailureExitsOneInRange ==
  ~g.pastEnd => C10_FailureExitsOne

AtBoundary == pc \in {"cond", "pre", "lo"}

\* C6: for every memory channel and request kind, with a DUT that holds
\* valid and payload until it sees ready: the ready the DUT evaluated
\* against is the ready the backend holds just before the tick of the same
\* iteration; there is one tick per iteration; a request ticked while the
\* backend was not ready is followed by a tick of the same payload, still
\* valid; and the payloads the backend accepted are, in order and one tick
\* each, the payloads the DUT saw accepted (addresses minus MEM_BASE).
C6_AdapterHandshake ==
  \A p \in Pairs :
    /\ pc \in {"lo", "tick"} => tile.mem_ready[p] = mm[p]
    /\ gm.ticks[p] <= 1
    /\ (gm.prev[p].valid /\ ~gm.prev[p].ready)
         => (gm.cur[p].valid /\ gm.cur[p].bits = gm.prev[p].bits)
    /\ AtBoundary =>
         /\ Len(gm.acc[p]) = Len(gm.fired[p])
         /\ \A i \in 1..Len(gm.acc[p]) :
              gm.acc[p][i] = TickPayload(p, gm.fired[p][i])

\* C6: a request was ticked while the backend was not ready, ticked again
\* with the backend ready, and the DUT has seen it accepted, after an
\* earlier request with the other payload.
C6_Witness ==
  \E p \in Pairs :
    /\ pc = "cond"
    /\ gm.prev[p].valid /\ ~gm.prev[p].ready
    /\ gm.cur[p].valid /\ gm.cur[p].ready
    /\ Len(gm.fired[p]) = 2
    /\ gm.fired[p][1] # gm.fired[p][2]
    /\ gm.acc[p][2] = gm.cur[p].bits

\* C7: on a gated cycle with a frame pending and host_in_ready low the
\* bridge does not call recv_nonblocking and drives the buffered frame,
\* unchanged and valid, onto the inbound wires; and the frames the transport
\* returned are, in order, the frames the DUT accepted followed by the one
\* still pending, so none is dropped or duplicated.
C7_BridgeHoldsPendingFrame ==
  /\ (pc \in {"magic", "dump", "hi"} /\ tile.host_clk_edge
       /\ gh.wasPending /\ ~tile.host_in_ready)
       => /\ ~gh.recvNow
          /\ htif_in_valid /\ htif_in_bits = gh.wasBits
          /\ tile.host_in_valid /\ tile.host_in_bits = gh.wasBits
  /\ AtBoundary =>
       gh.recvd = gh.taken \o (IF htif_in_valid THEN <<htif_in_bits>> ELSE <<>>)
  /\ tile.host_in_valid = htif_in_valid
  /\ htif_in_valid => tile.host_in_bits = htif_in_bits

\* C7: a frame was held over a gated cycle with host_in_ready low, while an
\* earlier, different frame had already been accepted by the DUT.
C7_Witness ==
  /\ pc = "magic" /\ tile.host_clk_edge
  /\ gh.wasPending /\ ~tile.host_in_ready
  /\ Len(gh.taken) = 1 /\ Len(gh.recvd) = 2
  /\ gh.taken[1] # gh.wasBits


(***************************************************************************)
(* The exit status (Spec).                                                 *)
(***************************************************************************)
\* C11: when the transport's exit status is non-zero as the loop is left,
\* main returns that status unchanged, also when the budget is used up or
\* clock_lo threw.
C11_TransportStatusWins ==
  (pc = "done" /\ htif.exit_code # 0) => ret = htif.exit_code

\* C11: the transport reported a non-zero status in the iteration in which
\* clock_lo threw, and the counter equals max_cycles as the loop is left.
C11_Witness ==
  /\ pc = "done" /\ htif.exit_code # 0
  /\ g.failed /\ trace_count = max_cycles
  /\ ret = htif.exit_code

\* C12 (on runs in which nextInst read no slot past the end of insts): when
\* the loop is left with the transport done with exit status 0 and clock_lo
\* never threw, main returns 0; and main returns 2 only when the budget is
\* used up and the transport has not reported completion.
C12_CleanCompletionExitsZero ==
  (pc = "done" /\ ~g.pastEnd) =>
    /\ (htif.done /\ htif.exit_code = 0 /\ ~g.failed) => ret = 0
    /\ ret = 2 => (trace_count = env.budget /\ ~htif.done)

\* What holds instead: a clean completion returns 0 unless it came in the
\* last iteration the budget allows, when main returns 2.
C12_CleanCompletionUnlessLastCycle ==
  (pc = "done" /\ ~g.pastEnd /\ htif.done /\ htif.exit_code = 0 /\ ~g.failed)
    => /\ ret \in {0, 2}
       /\ ret = 2 <=> trace_count = env.budget


(***************************************************************************)
(* The order of an iteration's steps.                                      *)
(***************************************************************************)
\* In the iteration's log every b comes after some a.
Before(a, b) ==
  \A j \in 1..Len(g.log) :
    g.log[j] = b => \E i \in 1..(j - 1) : g.log[i] = a

Times(a) == Cardinality({i \in 1..Len(g.log) : g.log[i] = a})

\* C13: in every iteration the backends' state is copied onto the DUT's
\* input wires before clock_lo; the backends' tick and any send come after
\* clock_lo and before clock_hi; and once the tick has run, every channel has
\* been ticked exactly once in the iteration.
C13_PhaseOrder ==
  /\ Before("copy", "clock_lo")
  /\ Before("clock_lo", "tick") /\ Before("clock_lo", "send")
  /\ Before("tick", "clock_hi")
  /\ \A j \in 1..Len(g.log) :
       g.log[j] = "clock_hi" =>
         \A i \in 1..Len(g.log) : g.log[i] \in {"tick", "send"} => i < j
  /\ Times("copy") <= 1 /\ Times("clock_lo") <= 1 /\ Times("tick") <= 1
  /\ \A p \in Pairs :
       gm.ticks[p] = Times("tick")
  /\ (pc \in {"cond", "exit", "done"} /\ g.log # <<>>) => Times("tick") = 1

\* C13: an iteration has ended in which a frame was sent.
C13_Witness ==
  /\ pc = "cond" /\ Times("send") = 1 /\ Times("clock_hi") = 1
  /\ \A p \in Pairs : gm.ticks[p] = 1


\* Every a in the iteration's log comes before every b in it.
AllBefore(a, b) ==
  \A i, j \in 1..Len(g.log) : (g.log[i] = a /\ g.log[j] = b) => i < j

\* C14 as claimed: in an iteration in which the bridge drives the DUT's
\* inbound valid and frame wires, it does so before that iteration's
\* clock_lo.
C14_InboundDrivenBeforeEval ==
  Times("drive") > 0 => (Times("clock_lo") = 0 \/ AllBefore("drive", "clock_lo"))

\* C14: the bridge drives the inbound wires after the iteration's clock_lo
\* and before its clock_hi, at most once, and only on a gated cycle; what
\* clock_lo evaluates is what an earlier iteration (or the reset code) drove.
C14_InboundDrivenAfterEval ==
  /\ Before("clock_lo", "drive") /\ Before("clock_lo", "recv")
  /\ AllBefore("drive", "clock_hi")
  /\ Times("drive") <= 1
  /\ Times("drive") = 1 => tile.host_clk_edge
  /\ pc \in {"pre", "lo"} => Times("drive") = 0

\* C14: a frame fetched in this iteration is on the inbound wires, after
\* clock_lo and with clock_hi still to come.
C14_Witness ==
  /\ pc = "hi" /\ Times("clock_lo") = 1 /\ Times("recv") = 1
  /\ Times("drive") = 1
  /\ tile.host_in_valid /\ tile.host_in_bits \in Frames


\* C15: between iterations and when the process has ended, the clock_lo of
\* the latest iteration has been followed by one clock_hi and one increment
\* of trace_count, also when it threw; and once clock_lo has thrown, clock_lo
\* is not called again.
C15_IterationsRunToCompletion ==
  /\ pc \in {"cond", "exit", "done", "aborted"} =>
       /\ Times("clock_hi") = Times("clock_lo")
       /\ Times("inc") = Times("clock_lo")
  /\ Times("clock_lo") <= 1 /\ Times("clock_hi") <= 1
  /\ pc \in {"pre", "lo"} => ~g.failed

\* The same, for runs in which nextInst never read past the end of insts.
C15_IterationsRunToCompletionInRange ==
  ~g.pastEnd => C15_IterationsRunToCompletion

\* An iteration in which clock_lo threw has run to its end.
C15_FailedIterationCompleted ==
  pc = "exit" /\ g.failed /\ Times("clock_hi") = 1 /\ Times("inc") = 1

(***************************************************************************)
(* The outbound path of the host bridge (SpecOut).                         *)
(***************************************************************************)
\* C16: on a gated cycle on which the DUT asserts host_out_valid the frame
\* is passed to send and host_out_ready is driven high; and the frames sent
\* are, in order and once each, the frames the DUT handed off.
C16_EachHandoffSentOnce ==
  /\ (pc \in {"magic", "dump", "hi"} /\ tile.host_clk_edge) =>
       /\ tile.host_out_ready
       /\ tile.host_out_valid =>
            (gh.sendNow /\ gh.sent[Len(gh.sent)] = tile.host_out_bits)
  /\ AtBoundary => gh.sent = gh.handed

\* What holds instead: the frames sent are the frames handed off, after one
\* more copy of the first frame when the DUT offered it on the first gated
\* cycle, on which it still saw host_out_ready low.
C16_SentIsHandedButFirst ==
  AtBoundary =>
    \/ gh.sent = gh.handed
    \/ /\ gh.sent # <<>> /\ dut.out.valid
       /\ dut.out.bits = gh.sent[1]
       /\ gh.handed = <<>> /\ Len(gh.sent) = 1
    \/ /\ gh.sent # <<>> /\ gh.handed # <<>>
       /\ gh.sent = <<gh.handed[1]>> \o gh.handed


(***************************************************************************)
(* The line written after the loop (SpecDiag).                             *)
(***************************************************************************)
\* C17: a run ended by a transport failure, by a timeout or by a throwing
\* clock_lo writes a FAILED line (cause, seed, cycle count) after the loop,
\* and never the "Completed" line.
C17_FailureIsDiagnosed ==
  pc = "done" =>
    /\ htif.exit_code # 0 => g.line = "failed_code"
    /\ (htif.exit_code = 0 /\ ~htif.done /\ ~g.failed) => g.line = "failed_timeout"
    /\ (htif.exit_code = 0 /\ g.failed) =>
         g.line \in {"failed_code", "failed_timeout"}
    /\ ret # 0 => g.line # "completed"

\* What holds instead: transport failures and timeouts write their FAILED
\* line; after a throwing clock_lo (transport status 0) no FAILED line is
\* written, and "Completed" is written when +verbose or +cycle-count is set.
C17_ThrowIsNotDiagnosed ==
  pc = "done" =>
    /\ htif.exit_code # 0 => g.line = "failed_code"
    /\ (htif.exit_code = 0 /\ ~htif.done /\ ~g.failed) => g.line = "failed_timeout"
    /\ (htif.exit_code = 0 /\ g.failed) =>
         (ret = 1 /\ g.line = (IF env.verbose THEN "completed" ELSE "none"))


(***************************************************************************)
(* The gate of the host bridge (SpecHost).                                 *)
(***************************************************************************)
\* C18: the bridge step of an iteration in which host_clk_edge is low calls
\* neither recv_nonblocking nor send and leaves htif_in_valid, htif_in_bits
\* and the wires host_in_valid, host_in_bits and host_out_ready as they are.
C18_UngatedBridgeIsNoOp ==
  [][(pc = "htif" /\ ~tile.host_clk_edge) =>
       /\ htif_in_valid' = htif_in_valid
       /\ htif_in_bits' = htif_in_bits
       /\ tile'.host_in_valid = tile.host_in_valid
       /\ tile'.host_in_bits = tile.host_in_bits
       /\ tile'.host_out_ready = tile.host_out_ready
       /\ gh'.recvd = gh.recvd /\ gh'.sent = gh.sent
       /\ g'.log = g.log]_vars

\* C18: the bridge step has run on a cycle without host_clk_edge, with a
\* frame pending, the DUT ready for it, and host_out_ready already high.
C18_Witness ==
  /\ pc = "magic" /\ ~tile.host_clk_edge
  /\ htif_in_valid /\ tile.host_in_ready /\ tile.host_out_ready
  /\ Times("tick") = 1 /\ Times("drive") = 0


(***************************************************************************)
(* The tracker's reads and flags.                                          *)
(***************************************************************************)
\* C19: nextInst reads no position of insts at or beyond size(), and no
\* start or stop flag is raised while the window holds fewer than MAGIC_LEN
\* instructions.
C19_NoReadPastEnd ==
  /\ ~g.pastEnd
  /\ (needs_reset \/ needs_emit_cycle_count) => Len(insts) = MAGIC_LEN

\* What holds instead: positions beyond size() are read exactly when the
\* window is short and all of it matches the head of a pattern; a flag is
\* raised on a short window only after such a read.
C19_FlagOnShortWindowOnlyPastEnd ==
  ((needs_reset \/ needs_emit_cycle_count) /\ Len(insts) < MAGIC_LEN)
    => (g.pastEnd /\ ~env.cb_debug)

\* C20: between the tracker's steps of two iterations both flags are false
\* (so nextInst never finds a flag still set), and no iteration consumes a
\* start event and a stop event.
C20_FlagsClearAtBoundary ==
  /\ pc \in {"cond", "pre", "lo", "tick", "htif", "magic", "dump", "hi", "exit", "done"}
       => (~needs_reset /\ ~needs_emit_cycle_count)
  /\ ~(g.resetNow /\ g.stopNow)

\* C20: a start event raised on a full window was consumed in the iteration
\* that has just ended.
C20_Witness ==
  /\ pc = "cond" /\ g.resetNow /\ ~g.pastEnd
  /\ Len(insts) = MAGIC_LEN /\ ~needs_reset

=============================================================================
